---- MODULE Spec2Model ----
(***************************************************************************)
(* Model of the SOAP calculator of AgenticCalculator (method3_SOAP.py):    *)
(* call_soap_operation, the dispatcher of one binary operation to the      *)
(* remote service, and evaluate_expression, the reducer that resolves a    *)
(* parenthesised expression bracket by bracket with bounded retry.         *)
(*                                                                         *)
(* Text is a sequence of one-character strings.  A Python float is the     *)
(* exact decimal n / 10^k, kept normalised (k = 0 or n not a multiple of   *)
(* 10); None is a value of its own.                                        *)
(***************************************************************************)
EXTENDS Integers, Sequences, FiniteSets, TLC

\* ------------------------------------------------------------ bounds

\* Longest text of the free-form equations (every text over RawAlphabet).
MaxLen == 3

\* Most remote calls that raise during one evaluation.
MaxFaults == 3

\* ------------------------------------------------- program constants

MAX_RETRIES == 3

\* Envelope overheads of the byte estimates.
REQ_OVERHEAD == 300

RESP_OVERHEAD == 250

FAULT_REQ_BYTES == 200

FAULT_RESP_BYTES == 100

STATUS_OK == 200

STATUS_ERROR == 500

STATUS_BAD_OP == 400

\* ------------------------------------------------------------- values

None == [kind |-> "None"]

RECURSIVE Normal(_, _)
Normal(n, k) ==
    IF k > 0 /\ n % 10 = 0 THEN Normal(n \div 10, k - 1)
    ELSE [kind |-> "float", n |-> n, k |-> k]

\* float(i) of an integer i.
FloatOfInt(i) == [kind |-> "float", n |-> i, k |-> 0]

RECURSIVE Pow10(_)
Pow10(k) == IF k = 0 THEN 1 ELSE 10 * Pow10(k - 1)

Abs(i) == IF i < 0 THEN -i ELSE i

\* ---------------------------------------------------------------- text

Digits == {"0", "1", "2", "3", "4", "5", "6", "7", "8", "9"}

\* The class [\d.] of the operand pattern.
NumChars == Digits \cup {"."}

\* The operator class taking in '^' and '%' as well.
OpChars_AndMore == {"+", "-", "*", "/", "^", "%"}

\* The class [+\-*/] of the operand pattern.
OpChars == {"+", "-", "*", "/"}

\* The class \s, and what str.strip() removes.
Whitespace == {" "}

Parens == {"(", ")"}

DigitVal(c) ==
    CASE c = "0" -> 0 [] c = "1" -> 1 [] c = "2" -> 2 [] c = "3" -> 3
      [] c = "4" -> 4 [] c = "5" -> 5 [] c = "6" -> 6 [] c = "7" -> 7
      [] c = "8" -> 8 [] c = "9" -> 9

DigitChar(d) ==
    CASE d = 0 -> "0" [] d = 1 -> "1" [] d = 2 -> "2" [] d = 3 -> "3"
      [] d = 4 -> "4" [] d = 5 -> "5" [] d = 6 -> "6" [] d = 7 -> "7"
      [] d = 8 -> "8" [] d = 9 -> "9"

Min(S) == CHOOSE x \in S : \A y \in S : x <= y

\* s[i..j], empty when j < i.
Slice(s, i, j) == IF j < i THEN <<>> ELSE SubSeq(s, i, j)

\* str.strip() over the whitespace of the model.
RECURSIVE LStrip(_)
LStrip(s) ==
    IF s # <<>> /\ Head(s) \in Whitespace THEN LStrip(Tail(s)) ELSE s

RECURSIVE RStrip(_)
RStrip(s) ==
    IF s # <<>> /\ s[Len(s)] \in Whitespace
    THEN RStrip(SubSeq(s, 1, Len(s) - 1)) ELSE s

Strip(s) == RStrip(LStrip(s))

\* str(i) of an integer i.
RECURSIVE NatStr(_)
NatStr(i) ==
    IF i < 10 THEN <<DigitChar(i)>>
    ELSE Append(NatStr(i \div 10), DigitChar(i % 10))

IntStr(i) == IF i < 0 THEN <<"-">> \o NatStr(-i) ELSE NatStr(i)

\* The k decimals of a fraction f < 10^k, leading zeros kept.
RECURSIVE FracStr(_, _)
FracStr(f, k) ==
    IF k = 0 THEN <<>>
    ELSE Append(FracStr(f \div 10, k - 1), DigitChar(f % 10))

\* str(x) of a float x in positional notation (1e-4 <= |x| < 1e16).
StrFloat(x) ==
    LET a == Abs(x.n)
        sign == IF x.n < 0 THEN <<"-">> ELSE <<>>
    IN  IF x.k = 0 THEN sign \o NatStr(a) \o <<".", "0">>
        ELSE sign \o NatStr(a \div Pow10(x.k)) \o <<".">>
                  \o FracStr(a % Pow10(x.k), x.k)

\* ------------------------------------------------------- float(text)

CountOf(s, c) == Cardinality({i \in 1..Len(s) : s[i] = c})

\* A run of [\d.] that float() accepts: one dot at most, one digit at least.
ValidNumber(tok) ==
    /\ tok # <<>>
    /\ \A i \in 1..Len(tok) : tok[i] \in NumChars
    /\ CountOf(tok, ".") <= 1
    /\ \E i \in 1..Len(tok) : tok[i] \in Digits

\* The digits of tok read as one integer, the dot skipped.
RECURSIVE DigitsValue(_)
DigitsValue(tok) ==
    IF tok = <<>> THEN 0
    ELSE LET c == tok[Len(tok)]
             rest == SubSeq(tok, 1, Len(tok) - 1)
         IN  IF c = "." THEN DigitsValue(rest)
             ELSE 10 * DigitsValue(rest) + DigitVal(c)

\* Decimals of tok: the characters after its dot.
Decimals(tok) ==
    IF CountOf(tok, ".") = 0 THEN 0
    ELSE Len(tok) - (CHOOSE i \in 1..Len(tok) : tok[i] = ".")

\* float(tok) of a valid run of [\d.].
NumberValue(tok) == Normal(DigitsValue(tok), Decimals(tok))

\* float(s) of any text: [kind |-> "ValueError"] when Python raises.
ValueError == [kind |-> "ValueError"]

PyFloat(s) ==
    LET t == Strip(s)
        signed == t # <<>> /\ t[1] \in {"+", "-"}
        body == IF signed THEN Tail(t) ELSE t
    IN  IF ~ValidNumber(body) THEN ValueError
        ELSE LET v == NumberValue(body)
             IN  IF signed /\ t[1] = "-" THEN Normal(-v.n, v.k) ELSE v

\* RoundInt dropping the fraction.
RoundInt_Floor(x) == x.n \div Pow10(x.k)

\* int(round(x)) of a float x: to the nearest integer, ties to the even one.
RoundInt(x) ==
    LET p == Pow10(x.k)
        q == x.n \div p
        r == x.n % p
    IN  IF 2 * r < p THEN q
        ELSE IF 2 * r > p THEN q + 1
        ELSE IF q % 2 = 0 THEN q ELSE q + 1

\* ------------------------------------------------------- re.search

NoMatch == [found |-> FALSE]

\* First parenthesis after position i, Len(s) + 1 when there is none.
NextParen(s, i) ==
    Min({j \in (i + 1)..Len(s) : s[j] \in Parens} \cup {Len(s) + 1})

\* Starts of the matches of \(([^()]+)\): a "(" whose next parenthesis is a
\* ")" with at least one character in between.
BracketStarts(s) ==
    {i \in 1..Len(s) :
        /\ s[i] = "("
        /\ LET j == NextParen(s, i)
           IN  j <= Len(s) /\ s[j] = ")" /\ j >= i + 2}

Max(S) == CHOOSE x \in S : \A y \in S : x >= y

\* InnermostMatch taking the rightmost innermost bracket.
InnermostMatch_Rightmost(s) ==
    IF BracketStarts(s) = {} THEN NoMatch
    ELSE LET i == Max(BracketStarts(s))
             j == NextParen(s, i)
         IN  [found |-> TRUE, first |-> i, last |-> j,
              group1 |-> SubSeq(s, i + 1, j - 1)]

\* re.search(r'\(([^()]+)\)', s): the leftmost innermost bracket, first and
\* last the positions of its parentheses, group1 the text between them.
InnermostMatch(s) ==
    IF BracketStarts(s) = {} THEN NoMatch
    ELSE LET i == Min(BracketStarts(s))
             j == NextParen(s, i)
         IN  [found |-> TRUE, first |-> i, last |-> j,
              group1 |-> SubSeq(s, i + 1, j - 1)]

\* End of the run of characters of class C starting at position i (i - 1
\* when s[i] is not in C).
RECURSIVE RunEnd(_, _, _)
RunEnd(s, i, C) ==
    IF i <= Len(s) /\ s[i] \in C THEN RunEnd(s, i + 1, C) ELSE i - 1

\* TripleAt with a '-' in front of the first operand taken into it.
TripleAt_Signed(s, i) ==
    LET d == IF i <= Len(s) /\ s[i] = "-" THEN i + 1 ELSE i
        e1 == RunEnd(s, d, NumChars)
        p == RunEnd(s, e1 + 1, Whitespace) + 1
        q == RunEnd(s, p + 1, Whitespace) + 1
        e3 == RunEnd(s, q, NumChars)
    IN  IF /\ e1 >= d
           /\ p <= Len(s) /\ s[p] \in OpChars
           /\ e3 >= q
        THEN [found |-> TRUE, first |-> i, last |-> e3,
              group1 |-> SubSeq(s, i, e1), group2 |-> s[p],
              group3 |-> SubSeq(s, q, e3)]
        ELSE NoMatch

\* The match of ([\d.]+)\s*([+\-*/])\s*([\d.]+) that starts at position i.
TripleAt(s, i) ==
    LET e1 == RunEnd(s, i, NumChars)
        p == RunEnd(s, e1 + 1, Whitespace) + 1
        q == RunEnd(s, p + 1, Whitespace) + 1
        e3 == RunEnd(s, q, NumChars)
    IN  IF /\ e1 >= i
           /\ p <= Len(s) /\ s[p] \in OpChars
           /\ e3 >= q
        THEN [found |-> TRUE, first |-> i, last |-> e3,
              group1 |-> SubSeq(s, i, e1), group2 |-> s[p],
              group3 |-> SubSeq(s, q, e3)]
        ELSE NoMatch

\* re.search(r'([\d.]+)\s*([+\-*/])\s*([\d.]+)', s): the leftmost triple.
TripleMatch(s) ==
    LET matches == {TripleAt(s, i) : i \in 1..Len(s)} \ {NoMatch}
    IN  IF matches = {} THEN NoMatch
        ELSE CHOOSE t \in matches : \A u \in matches : t.first <= u.first

\* ------------------------------------------------ call_soap_operation

\* OPERATIONS: the remote method an operator names.
OPERATIONS(o) ==
    CASE o = "+" -> "Add" [] o = "-" -> "Subtract"
      [] o = "*" -> "Multiply" [] o = "/" -> "Divide"

\* What the integer-only remote service answers when it does not raise.
RemoteResult(o, int_a, int_b) ==
    CASE o = "+" -> int_a + int_b
      [] o = "-" -> int_a - int_b
      [] o = "*" -> int_a * int_b
      [] o = "/" -> int_a \div int_b

\* What the service does with a call that reaches it.
ServiceOutcomes == {"ok", "raise"}

\* The remote call raises: the service is down or faulty (svc), or it is
\* asked to divide by zero.
ServiceRaises(o, int_b, svc) == svc = "raise" \/ (o = "/" /\ int_b = 0)

\* ZeroDivisor testing the divisor as passed, not the rounded one.
ZeroDivisor_Unrounded(o, y, int_b) == o = "/" /\ y.n = 0

\* if int_b == 0, in the branch of '/': y is the divisor as passed, int_b
\* the divisor rounded.
ZeroDivisor(o, y, int_b) == o = "/" /\ int_b = 0

\* UnknownOperator answering as a failed remote call does.
UnknownOperator_AsFault ==
    [result |-> None, req |-> FAULT_REQ_BYTES, resp |-> FAULT_RESP_BYTES,
     status |-> STATUS_ERROR, fault |-> 1, remote |-> "none", args |-> <<>>]

\* else: return None, 0, 0, 400, 1
UnknownOperator ==
    [result |-> None, req |-> 0, resp |-> 0,
     status |-> STATUS_BAD_OP, fault |-> 1, remote |-> "none", args |-> <<>>]

\* RemoteFailure estimating no bytes, as the local refusals do.
RemoteFailure_NoBytes(o, int_a, int_b) ==
    [result |-> None, req |-> 0, resp |-> 0, status |-> STATUS_ERROR,
     fault |-> 1, remote |-> OPERATIONS(o), args |-> <<int_a, int_b>>]

\* except Fault / except Exception: return None, 200, 100, 500, 1
RemoteFailure(o, int_a, int_b) ==
    [result |-> None, req |-> FAULT_REQ_BYTES, resp |-> FAULT_RESP_BYTES,
     status |-> STATUS_ERROR, fault |-> 1, remote |-> OPERATIONS(o),
     args |-> <<int_a, int_b>>]

\* call_soap_operation(o, x, y) when the remote service behaves as svc.
\* remote names the remote method invoked, "none" when none was, and args
\* the arguments it was invoked with.
CallSoapOperation(o, x, y, svc) ==
    LET int_a == RoundInt(x)
        int_b == RoundInt(y)
    IN  IF o \notin OpChars
        THEN UnknownOperator
        ELSE IF ZeroDivisor(o, y, int_b)
        THEN [result |-> None, req |-> 0, resp |-> 0,
              status |-> STATUS_ERROR, fault |-> 1, remote |-> "none",
              args |-> <<>>]
        ELSE IF ServiceRaises(o, int_b, svc)
        THEN RemoteFailure(o, int_a, int_b)
        ELSE LET res == RemoteResult(o, int_a, int_b)
             IN  [result |-> FloatOfInt(res),
                  req |-> REQ_OVERHEAD + Len(IntStr(int_a))
                                       + Len(IntStr(int_b)),
                  resp |-> RESP_OVERHEAD + Len(IntStr(res)),
                  status |-> STATUS_OK, fault |-> 0,
                  remote |-> OPERATIONS(o), args |-> <<int_a, int_b>>]

\* -------------------------------------------------------------- inputs

\* Characters of the free-form equations.
RawAlphabet == {"(", ")", "2", "0", ".", "/", "-", " "}

RECURSIVE TextsOfLen(_)
TextsOfLen(len) ==
    IF len = 0 THEN {<<>>}
    ELSE {Append(t, c) : t \in TextsOfLen(len - 1), c \in RawAlphabet}

\* Every text over RawAlphabet of length MaxLen at most.
RawTexts == UNION {TextsOfLen(len) : len \in 0..MaxLen}

\* An equation given as a tree: a literal, or one triple in a bracket whose
\* operands are literals or brackets again.
Atom(t) == [kind |-> "atom", tok |-> t]

Node(l, o, r) == [kind |-> "node", l |-> l, op |-> o, r |-> r]

NoTree == [kind |-> "none"]

IntAtoms == {Atom(<<"0">>), Atom(<<"2">>), Atom(<<"3">>), Atom(<<"5">>)}

DecAtoms == {Atom(<<"2", ".", "5">>), Atom(<<"0", ".", "4">>)}

\* One bracket around one triple of literals.
FlatTrees == {Node(l, o, r) : l, r \in IntAtoms \cup DecAtoms, o \in OpChars}

SmallTrees == {Node(l, o, r) : l, r \in {Atom(<<"2">>), Atom(<<"5">>)},
                               o \in OpChars}

\* Brackets in brackets: on the left, on the right, on both sides.
NestedTrees ==
    {Node(t, o, x) : t \in SmallTrees, o \in OpChars,
                     x \in {Atom(<<"0">>), Atom(<<"4">>)}}
    \cup {Node(x, o, t) : t \in SmallTrees, o \in OpChars,
                          x \in {Atom(<<"0">>), Atom(<<"4">>)}}
    \cup {Node(t, o, u) : t \in {Node(Atom(<<"2">>), "+", Atom(<<"3">>)),
                                 Node(Atom(<<"2">>), "-", Atom(<<"5">>))},
                          u \in SmallTrees, o \in OpChars}
    \cup {Node(Node(Atom(<<"2">>), "+", Atom(<<"3">>)), "*", Atom(<<"4">>)),
          Node(Node(Atom(<<"2">>), "-", Atom(<<"5">>)), "+", Atom(<<"4">>))}

Trees == FlatTrees \cup NestedTrees

\* The text of a tree.
RECURSIVE Render(_)
Render(t) ==
    IF t.kind = "atom" THEN t.tok
    ELSE <<"(">> \o Render(t.l) \o <<t.op>> \o Render(t.r) \o <<")">>

\* One bracket around a chain of two operations.
ChainedTexts ==
    {<<"(", x, o, y, u, z, ")">> : x, y, z \in {"2", "4"}, o, u \in OpChars}
    \cup {<<"(", "2", "+", "3", "+", "4", ")">>}

\* Equations of other shapes: a literal in a bracket, chained operations in
\* one bracket, whitespace, unbalanced and empty brackets, a run of digits
\* and dots that is no number, an operation outside any bracket, a character
\* that is no operator between two numbers.
ShapedTexts ==
    { <<"(", "5", ")">>,
      <<"(", " ", "5", " ", ")">>,
      <<"(", "(", "5", ")", ")">>,
      <<"(", "5", ")", "+", "(", "3", ")">>,
      <<"2", "(", " ", ")", "5", "+", "3">>,
      <<"(", "2", "*", "3", "-", "4", ")", "+", "5">>,
      <<"(", " ", "2", " ", "+", " ", "3", " ", ")">>,
      <<"(", "2", "+", "3">>,
      <<"(", ")">>,
      <<"1", ".", "2", ".", "3", "+", "4">>,
      <<"(", "2", "+", ".", ")">>,
      <<"2", "+", "3">>,
      <<"2", "+", "3", "*", "4">>,
      <<"(", "2", "+", "3", ")", "*", "4">>,
      <<"5", "/", "0">>,
      <<"2", "/", "0", ".", "5">>,
      <<"2", "^", "3", "+", "4">>,
      <<"(", "2", "%", "3", ")">>,
      <<"(", "1", ".", "2", ".", "3", "+", "4">>,
      <<"(", "(", "5", ")">> }

\* ------------------------------------------------ evaluate_expression

VARIABLES
    equation,           \* the text handed to evaluate_expression
    tree,               \* the tree the text was rendered from, or NoTree
    expr,               \* the expression being reduced
    pc,                 \* where the evaluation stands
    a, op, b,           \* operands and operator of the current triple
    attempt,            \* index the retry loop hands out next
    result,             \* what the last dispatch of the bracket loop returned
    total_req_bytes, total_resp_bytes, soap_calls,
    http_status, fault_flag, retry_count,
    value,              \* first component of the returned tuple
    step,               \* reduction steps begun so far
    calls,              \* every call of call_soap_operation, in order, with
                        \* the loop that made it (at) and what it returned
    sleeps,             \* every time.sleep, in order
    \* run_method3_epochs
    df,                 \* the dataset: rows of ID, Equation and Answer
    EPOCHS,             \* how many times the run goes through the dataset
    epoch,              \* index of the epoch under way, from 0
    idx,                \* position in df of the row under way
    call_ms,            \* the time one dispatch takes on the run's clock
    results,            \* the trial log
    raw_df,             \* the trial log sorted, once the epochs are over
    summary,            \* the per-ID summary, once the epochs are over
    faults_before       \* remote calls that raised in the rows gone by

\* The state of run_method3_epochs, which a single evaluation leaves alone.
run == <<df, EPOCHS, epoch, idx, call_ms, results, raw_df, summary,
         faults_before>>

vars == <<equation, tree, expr, pc, a, op, b, attempt, result,
          total_req_bytes, total_resp_bytes, soap_calls, http_status,
          fault_flag, retry_count, value, step, calls, sleeps, run>>

metrics == <<total_req_bytes, total_resp_bytes, soap_calls, http_status,
             fault_flag, retry_count>>

\* Remote calls that raised so far.
Faults ==
    faults_before
    + Cardinality({i \in 1..Len(calls) :
          calls[i].out.remote # "none" /\ calls[i].out.result = None})

\* No run is under way: evaluate_expression or call_soap_operation is
\* called on its own.
NoRun ==
    /\ df = <<>> /\ EPOCHS = 0 /\ epoch = 0 /\ idx = 0 /\ call_ms = 0
    /\ results = <<>> /\ raw_df = <<>> /\ summary = <<>>
    /\ faults_before = 0

Init ==
    /\ \/ tree \in Trees /\ equation = Render(tree)
       \/ tree = NoTree
          /\ equation \in RawTexts \cup ShapedTexts \cup ChainedTexts
    /\ expr = Strip(equation)
    /\ pc = "loop"
    /\ a = None /\ op = "" /\ b = None
    /\ attempt = 0
    /\ result = None
    /\ total_req_bytes = 0 /\ total_resp_bytes = 0 /\ soap_calls = 0
    /\ http_status = STATUS_OK /\ fault_flag = 0 /\ retry_count = 0
    /\ value = None
    /\ step = 0
    /\ calls = <<>>
    /\ sleeps = <<>>
    /\ NoRun

\* Splice keeping the two parentheses of the span.
Splice_KeepParens(s, m, text) ==
    Slice(s, 1, m.first) \o text \o Slice(s, m.last, Len(s))

\* The text of expr with the matched span m replaced by text.
Splice(s, m, text) ==
    Slice(s, 1, m.first - 1) \o text \o Slice(s, m.last + 1, Len(s))

\* Inner without the strip.
Inner_Unstripped(m) == m.group1

\* inner = match.group(1).strip()
Inner(m) == Strip(m.group1)

\* Both operands of a triple are numbers float() accepts.
OperandsParse(t) == ValidNumber(t.group1) /\ ValidNumber(t.group3)

\* while '(' in expr ... if not match: break
LoopExit ==
    /\ pc = "loop"
    /\ ~InnermostMatch(expr).found
    /\ pc' = "final"
    /\ UNCHANGED <<run, equation, tree, expr, a, op, b, attempt, result,
                   metrics, value, step, calls, sleeps>>

\* A bracket without a triple: its parentheses are dropped.
StripParens ==
    /\ pc = "loop"
    /\ InnermostMatch(expr).found
    /\ \E match \in {InnermostMatch(expr)} :
       \E inner \in {Inner(match)} :
           /\ ~TripleMatch(inner).found
           /\ expr' = Splice(expr, match, inner)
    /\ UNCHANGED <<run, equation, tree, pc, a, op, b, attempt, result, metrics,
                   value, step, calls, sleeps>>

\* A bracket with a triple: its operands are read and the retry loop entered.
BeginBracket ==
    /\ pc = "loop"
    /\ InnermostMatch(expr).found
    /\ \E inner \in {Inner(InnermostMatch(expr))} :
       \E t \in {TripleMatch(inner)} :
           /\ t.found
           /\ OperandsParse(t)
           /\ a' = NumberValue(t.group1)
           /\ op' = t.group2
           /\ b' = NumberValue(t.group3)
    /\ result' = None
    /\ attempt' = 0
    /\ step' = step + 1
    /\ pc' = "try"
    /\ UNCHANGED <<run, equation, tree, expr, metrics, value, calls, sleeps>>

\* float() of an operand of the bracket's triple raises ValueError, which
\* nothing in evaluate_expression catches.
BracketValueError ==
    /\ pc = "loop"
    /\ InnermostMatch(expr).found
    /\ \E inner \in {Inner(InnermostMatch(expr))} :
       \E t \in {TripleMatch(inner)} :
           t.found /\ ~OperandsParse(t)
    /\ pc' = "raised"
    /\ UNCHANGED <<run, equation, tree, expr, a, op, b, attempt, result,
                   metrics, value, step, calls, sleeps>>

\* Exhausted allowing one attempt more.
Exhausted_OneMore(i) == i > MAX_RETRIES

\* Exhausted allowing one attempt less.
Exhausted_OneLess(i) == i >= MAX_RETRIES - 1

\* An attempt of the final pass that goes on with the loop after a success.
FinalAttempt_NoReturn ==
    /\ pc = "finaltry"
    /\ attempt < MAX_RETRIES
    /\ \E svc \in {"ok", "raise"} :
         LET out == CallSoapOperation(op, a, b, svc)
         IN  /\ svc = "raise" =>
                  Cardinality({i \in 1..Len(calls) :
                      calls[i].out.remote # "none"
                      /\ calls[i].out.result = None}) < MaxFaults
             /\ calls' = Append(calls, [step |-> step, attempt |-> attempt,
                                        at |-> pc, op |-> op, a |-> a,
                                        b |-> b, out |-> out])
             /\ soap_calls' = soap_calls + 1
             /\ total_req_bytes' = total_req_bytes + out.req
             /\ total_resp_bytes' = total_resp_bytes + out.resp
             /\ http_status' = out.status
             /\ fault_flag' = out.fault
             /\ retry_count' = IF out.result = None THEN retry_count + 1
                               ELSE retry_count
             /\ sleeps' = IF out.result = None
                          THEN Append(sleeps, [step |-> step,
                                   after |-> attempt, units |-> attempt])
                          ELSE sleeps
             /\ value' = IF out.result # None /\ attempt + 1 >= MAX_RETRIES
                         THEN out.result ELSE value
             /\ attempt' = attempt + 1
             /\ pc' = IF attempt + 1 < MAX_RETRIES THEN "finaltry"
                      ELSE IF out.result # None THEN "done"
                      ELSE "finalafter"
    /\ UNCHANGED <<run, equation, tree, expr, a, op, b, result, step>>

\* range(MAX_RETRIES) has no index left to hand out once i attempts are made.
Exhausted(i) == i >= MAX_RETRIES

\* Accumulate keeping the last attempt's figure only.
Accumulate_LastOnly(total, x) == x

\* total += x
Accumulate(total, x) == total + x

\* What time.sleep is called with after the failed attempt of index i, in
\* units of the base delay of 0.5 s.
BackoffUnits(i) == i

\* Dispatch counting every attempt as a retry, the successful one too.
Dispatch_CountsEveryAttempt(svc) ==
    /\ svc = "raise" => Faults < MaxFaults
    /\ LET out == CallSoapOperation(op, a, b, svc)
       IN  /\ calls' = Append(calls, [step |-> step, attempt |-> attempt,
                                      at |-> pc, op |-> op, a |-> a,
                                      b |-> b, out |-> out])
           /\ soap_calls' = soap_calls + 1
           /\ total_req_bytes' = Accumulate(total_req_bytes, out.req)
           /\ total_resp_bytes' = Accumulate(total_resp_bytes, out.resp)
           /\ http_status' = out.status
           /\ fault_flag' = out.fault
           /\ retry_count' = retry_count + 1
           /\ IF out.result # None
              THEN UNCHANGED <<sleeps, attempt>>
              ELSE /\ sleeps' = Append(sleeps,
                                    [step |-> step, after |-> attempt,
                                     units |-> BackoffUnits(attempt)])
                   /\ attempt' = attempt + 1

\* One pass of the body of 'for attempt in range(MAX_RETRIES)': the call, the
\* accumulation of its metrics and, after a failure, the count and the sleep.
Dispatch(svc) ==
    /\ svc = "raise" => Faults < MaxFaults
    /\ LET out == CallSoapOperation(op, a, b, svc)
       IN  /\ calls' = Append(calls, [step |-> step, attempt |-> attempt,
                                      at |-> pc, op |-> op, a |-> a,
                                      b |-> b, out |-> out])
           /\ soap_calls' = soap_calls + 1
           /\ total_req_bytes' = Accumulate(total_req_bytes, out.req)
           /\ total_resp_bytes' = Accumulate(total_resp_bytes, out.resp)
           /\ http_status' = out.status
           /\ fault_flag' = out.fault
           /\ IF out.result # None
              THEN UNCHANGED <<retry_count, sleeps, attempt>>
              ELSE /\ retry_count' = retry_count + 1
                   /\ sleeps' = Append(sleeps,
                                    [step |-> step, after |-> attempt,
                                     units |-> BackoffUnits(attempt)])
                   /\ attempt' = attempt + 1

\* An attempt of the bracket loop; a success breaks out of the loop.
Attempt ==
    /\ pc = "try"
    /\ ~Exhausted(attempt)
    /\ \E svc \in ServiceOutcomes :
         /\ Dispatch(svc)
         /\ result' = CallSoapOperation(op, a, b, svc).result
    /\ pc' = IF result' # None \/ Exhausted(attempt')
             THEN "after" ELSE "try"
    /\ UNCHANGED <<run, equation, tree, expr, a, op, b, value, step>>

\* Replace putting the result in place of the triple only, the rest of the
\* bracket kept.
Replace_TripleOnly ==
    /\ pc = "after"
    /\ result # None
    /\ LET m == InnermostMatch(expr)
           t == TripleMatch(m.group1)
       IN  expr' = Slice(expr, 1, m.first + t.first - 1)
                     \o StrFloat(result)
                     \o Slice(expr, m.first + t.last + 1, Len(expr))
    /\ pc' = "loop"
    /\ UNCHANGED <<run, equation, tree, a, op, b, attempt, result, metrics,
                   value, step, calls, sleeps>>

\* expr = expr[:match.start()] + str(result) + expr[match.end():]
Replace ==
    /\ pc = "after"
    /\ result # None
    /\ expr' = Splice(expr, InnermostMatch(expr), StrFloat(result))
    /\ pc' = "loop"
    /\ UNCHANGED <<run, equation, tree, a, op, b, attempt, result, metrics,
                   value, step, calls, sleeps>>

\* GiveUp without the return: the bracket is replaced by str(None) and the
\* loop goes on.
GiveUp_GoesOn ==
    /\ pc = "after"
    /\ result = None
    /\ expr' = Slice(expr, 1, InnermostMatch(expr).first - 1)
                 \o <<"N", "o", "n", "e">>
                 \o Slice(expr, InnermostMatch(expr).last + 1, Len(expr))
    /\ pc' = "loop"
    /\ UNCHANGED <<run, equation, tree, a, op, b, attempt, result, metrics,
                   value, step, calls, sleeps>>

\* if result is None: return None, ...
GiveUp ==
    /\ pc = "after"
    /\ result = None
    /\ value' = None
    /\ pc' = "done"
    /\ UNCHANGED <<run, equation, tree, expr, a, op, b, attempt, result,
                   metrics, step, calls, sleeps>>

\* The final pass finds a triple in what is left.
FinalMatch ==
    /\ pc = "final"
    /\ \E t \in {TripleMatch(expr)} :
           /\ t.found
           /\ OperandsParse(t)
           /\ a' = NumberValue(t.group1)
           /\ op' = t.group2
           /\ b' = NumberValue(t.group3)
    /\ attempt' = 0
    /\ step' = step + 1
    /\ pc' = "finaltry"
    /\ UNCHANGED <<run, equation, tree, expr, result, metrics, value, calls,
                   sleeps>>

FinalValueError ==
    /\ pc = "final"
    /\ \E t \in {TripleMatch(expr)} :
           t.found /\ ~OperandsParse(t)
    /\ pc' = "raised"
    /\ UNCHANGED <<run, equation, tree, expr, a, op, b, attempt, result,
                   metrics, value, step, calls, sleeps>>

\* An attempt of the final pass; a success returns at once.
FinalAttempt ==
    /\ pc = "finaltry"
    /\ ~Exhausted(attempt)
    /\ \E svc \in ServiceOutcomes :
         /\ Dispatch(svc)
         /\ LET res == CallSoapOperation(op, a, b, svc).result
            IN  IF res # None
                THEN value' = res /\ pc' = "done"
                ELSE /\ value' = value
                     /\ pc' = IF Exhausted(attempt')
                              THEN "finalafter" ELSE "finaltry"
    /\ UNCHANGED <<run, equation, tree, expr, a, op, b, result, step>>

\* FinalGiveUp returning from inside the retry loop, after the first failed
\* attempt already.
FinalGiveUp_FirstFailure ==
    /\ pc \in {"finaltry", "finalafter"}
    /\ attempt >= 1
    /\ value' = None
    /\ pc' = "done"
    /\ UNCHANGED <<run, equation, tree, expr, a, op, b, attempt, result,
                   metrics, step, calls, sleeps>>

\* The return that follows the final pass's retry loop.
FinalGiveUp ==
    /\ pc = "finalafter"
    /\ value' = None
    /\ pc' = "done"
    /\ UNCHANGED <<run, equation, tree, expr, a, op, b, attempt, result,
                   metrics, step, calls, sleeps>>

\* return float(expr), ...
PlainNumber ==
    /\ pc = "final"
    /\ ~TripleMatch(expr).found
    /\ PyFloat(expr) # ValueError
    /\ value' = PyFloat(expr)
    /\ pc' = "done"
    /\ UNCHANGED <<run, equation, tree, expr, a, op, b, attempt, result,
                   metrics, step, calls, sleeps>>

\* except: return None, ...
ParseFailure ==
    /\ pc = "final"
    /\ ~TripleMatch(expr).found
    /\ PyFloat(expr) = ValueError
    /\ value' = None
    /\ pc' = "done"
    /\ UNCHANGED <<run, equation, tree, expr, a, op, b, attempt, result,
                   metrics, step, calls, sleeps>>

Next ==
    \/ LoopExit
    \/ StripParens
    \/ BeginBracket
    \/ BracketValueError
    \/ Attempt
    \/ Replace
    \/ GiveUp
    \/ FinalMatch
    \/ FinalValueError
    \/ FinalAttempt
    \/ FinalGiveUp
    \/ PlainNumber
    \/ ParseFailure

Spec == Init /\ [][Next]_vars

\* Brackets in brackets, one level and two levels deep.
DeepTrees ==
    {Node(Node(Atom(<<"2">>), "+", Atom(<<"3">>)), o,
          Node(Atom(<<"2">>), "-", Atom(<<"5">>))) : o \in OpChars}
    \cup {Node(Node(Atom(<<"2">>), "+", Atom(<<"3">>)), "*", Atom(<<"4">>)),
          Node(Node(Atom(<<"2">>), "-", Atom(<<"5">>)), "+", Atom(<<"4">>))}

\* The evaluation of the equations with brackets in brackets and of the
\* equations of other shapes, as one sequential call: as long as a statement
\* is left to run, one runs.
FairInit == Init /\ (tree \in DeepTrees \/ equation \in ShapedTexts)

FairSpec == FairInit /\ [][Next]_vars /\ WF_vars(Next)

\* ------------------------------------- call_soap_operation on its own

\* Operators call_soap_operation may be handed: the four it knows and two
\* it does not.
ProbeOps == OpChars \cup {"^", "%"}

\* Operands it may be handed: whole and fractional, ties of both parities,
\* a negative one, ones whose rounding changes the number of digits.
ProbeOperands ==
    { Normal(0, 0), Normal(2, 0), Normal(12, 0), Normal(-3, 0),
      Normal(4, 1), Normal(5, 1), Normal(15, 1), Normal(25, 1),
      Normal(26, 1), Normal(-25, 1), Normal(996, 1) }

\* A caller about to call call_soap_operation(op, a, b).
DispatchInit ==
    /\ op \in ProbeOps
    /\ a \in ProbeOperands
    /\ b \in ProbeOperands
    /\ pc = "call"
    /\ equation = <<>> /\ tree = NoTree /\ expr = <<>>
    /\ attempt = 0
    /\ result = None
    /\ total_req_bytes = 0 /\ total_resp_bytes = 0 /\ soap_calls = 0
    /\ http_status = STATUS_OK /\ fault_flag = 0 /\ retry_count = 0
    /\ value = None
    /\ step = 0
    /\ calls = <<>>
    /\ sleeps = <<>>
    /\ NoRun

\* The call and what it returns, whatever the remote service does.
CallOnce ==
    /\ pc = "call"
    /\ \E svc \in ServiceOutcomes :
         calls' = Append(calls, [step |-> step, attempt |-> attempt,
                                 at |-> pc, op |-> op, a |-> a, b |-> b,
                                 out |-> CallSoapOperation(op, a, b, svc)])
    /\ pc' = "called"
    /\ UNCHANGED <<run, equation, tree, expr, a, op, b, attempt, result,
                   metrics, value, step, sleeps>>

DispatchNext == CallOnce

DispatchSpec == DispatchInit /\ [][DispatchNext]_vars

\* ------------------------------------------------- run_method3_epochs

\* EPOCHS is 15 in the source; the runs here are given 1 to MaxEpochs
\* epochs.
MaxEpochs == 3

\* abs(float(result) - float(row['Answer'])) < 1.0
TOLERANCE == 1

\* time.sleep(0.5 * attempt), in milliseconds per unit.
BACKOFF_MS == 500

\* A cell of the Answer column: a float, nan, or text.
NaN == [kind |-> "nan"]

Str(t) == [kind |-> "str", text |-> t]

\* float(x) of a cell.
FloatOfCell(x) == IF x.kind = "str" THEN PyFloat(x.text) ELSE x

\* abs(x - y) < 1.0 of two floats.
Within(x, y) ==
    Abs(x.n * Pow10(y.k) - y.n * Pow10(x.k)) < TOLERANCE * Pow10(x.k + y.k)

\* is_correct: the comparison is not made for a result of None, raises (and
\* gives 0) for an answer float() refuses, and is False for nan.
IsCorrect(res, answer) ==
    IF res = None THEN 0
    ELSE LET expected == FloatOfCell(answer)
         IN  IF expected = ValueError \/ expected = NaN THEN 0
             ELSE IF Within(res, expected) THEN 1 ELSE 0

Row(id, eq, ans) == [ID |-> id, Equation |-> eq, Answer |-> ans]

\* Equations of the runs: one dispatch without and within a bracket, no
\* dispatch, no number at all, and operands float() refuses.
RunEquations ==
    { <<"2", "+", "3">>, <<"(", "2", "+", "3", ")">>, <<"(", "5", ")">>,
      <<"(", ")">>, <<"1", ".", "2", ".", "3", "+", "4">>,
      <<"(", "2", "+", ".", ")">> }

\* Expected answers: the value 5.0 itself, values 0.9, 1.0 and 2.0 away from
\* it, nan, and text that is and is not a number.
Answers ==
    { FloatOfInt(5), Normal(59, 1), FloatOfInt(6), FloatOfInt(4),
      FloatOfInt(7), NaN, Str(<<"n", "/", "a">>), Str(<<"5", ".", "5">>) }

\* Datasets of one row.
OneRowDatasets ==
    {<<Row(1, eq, ans)>> : eq \in RunEquations, ans \in Answers}

\* Datasets of two rows, their IDs ascending or descending.
TwoRowDatasets ==
    {<<Row(ids[1], p[1], FloatOfInt(5)), Row(ids[2], p[2], FloatOfInt(5))>> :
        ids \in {<<1, 2>>, <<2, 1>>},
        p \in {<<<<"2", "+", "3">>, <<"(", "2", "+", "3", ")">> >>,
               <<<<"(", "2", "+", "3", ")">>, <<"(", ")">> >>,
               <<<<"(", "5", ")">>, <<"2", "+", "3">> >>,
               <<<<"2", "+", "3">>, <<"1", ".", "2", ".", "3", "+", "4">> >>,
               <<<<"1", ".", "2", ".", "3", "+", "4">>, <<"2", "+", "3">> >>}}

Datasets == OneRowDatasets \cup TwoRowDatasets

\* What a dispatch may take on the run's clock, in milliseconds.
CallMs == {1, 4}

RunInit ==
    /\ df \in Datasets
    /\ EPOCHS \in 1..MaxEpochs
    /\ call_ms \in CallMs
    /\ epoch = 0 /\ idx = 1
    /\ results = <<>> /\ raw_df = <<>> /\ summary = <<>>
    /\ faults_before = 0
    /\ pc = "row"
    /\ equation = <<>> /\ tree = NoTree /\ expr = <<>>
    /\ a = None /\ op = "" /\ b = None
    /\ attempt = 0
    /\ result = None
    /\ total_req_bytes = 0 /\ total_resp_bytes = 0 /\ soap_calls = 0
    /\ http_status = STATUS_OK /\ fault_flag = 0 /\ retry_count = 0
    /\ value = None
    /\ step = 0
    /\ calls = <<>>
    /\ sleeps = <<>>

\* evaluate_expression(row['Equation']) is entered, its locals fresh.
StartRow ==
    /\ pc = "row"
    /\ equation' = df[idx].Equation
    /\ expr' = Strip(df[idx].Equation)
    /\ pc' = "loop"
    /\ a' = None /\ op' = "" /\ b' = None
    /\ attempt' = 0
    /\ result' = None
    /\ total_req_bytes' = 0 /\ total_resp_bytes' = 0 /\ soap_calls' = 0
    /\ http_status' = STATUS_OK /\ fault_flag' = 0 /\ retry_count' = 0
    /\ value' = None
    /\ step' = 0
    /\ calls' = <<>>
    /\ sleeps' = <<>>
    /\ faults_before' = Faults
    /\ UNCHANGED <<tree, df, EPOCHS, epoch, idx, call_ms, results, raw_df,
                   summary>>

RECURSIVE SleptUnits(_)
SleptUnits(n) == IF n = 0 THEN 0 ELSE SleptUnits(n - 1) + sleeps[n].units

\* latency_ms: what the evaluation took, its own work counted as much as a
\* dispatch, its dispatches and its sleeps.
Elapsed == (1 + soap_calls) * call_ms + BACKOFF_MS * SleptUnits(Len(sleeps))

\* evaluate_expression has returned: the trial is measured, judged and
\* appended to the log, and the loops move on.
RecordTrial ==
    /\ pc = "done"
    /\ results' = Append(results,
          [ID |-> df[idx].ID,
           Epoch |-> epoch + 1,
           Equation |-> df[idx].Equation,
           Answer |-> df[idx].Answer,
           Output_Answer |-> value,
           IsCorrect |-> IsCorrect(value, df[idx].Answer),
           Latency_ms |-> Elapsed,
           Request_Size_Bytes |-> total_req_bytes,
           Response_Size_Bytes |-> total_resp_bytes,
           SOAP_Calls_Count |-> soap_calls])
    /\ IF idx < Len(df)
       THEN idx' = idx + 1 /\ epoch' = epoch /\ pc' = "row"
       ELSE IF epoch + 1 < EPOCHS
       THEN idx' = 1 /\ epoch' = epoch + 1 /\ pc' = "row"
       ELSE idx' = idx /\ epoch' = epoch /\ pc' = "aggregate"
    /\ UNCHANGED <<equation, tree, expr, a, op, b, attempt, result, metrics,
                   value, step, calls, sleeps, df, EPOCHS, call_ms, raw_df,
                   summary, faults_before>>

\* evaluate_expression has raised: nothing in run_method3_epochs catches
\* it, and the run ends there.
RunAborts ==
    /\ pc = "raised"
    /\ pc' = "aborted"
    /\ UNCHANGED <<run, equation, tree, expr, a, op, b, attempt, result,
                   metrics, value, step, calls, sleeps>>

\* The order of sort_values(['ID', 'Epoch']).
Before(r, s) == r.ID < s.ID \/ (r.ID = s.ID /\ r.Epoch < s.Epoch)

RECURSIVE SortValues(_)
SortValues(log) ==
    IF log = <<>> THEN <<>>
    ELSE LET i == Min({j \in 1..Len(log) :
                          \A k \in 1..Len(log) : ~Before(log[k], log[j])})
         IN  <<log[i]>> \o SortValues(SubSeq(log, 1, i - 1)
                                         \o SubSeq(log, i + 1, Len(log)))

\* The rows of one ID, in the order of the frame.
Group(frame, id) ==
    LET Test(r) == r.ID = id IN SelectSeq(frame, Test)

Latencies(g) == [i \in 1..Len(g) |-> g[i].Latency_ms]

Flags(g) == [i \in 1..Len(g) |-> g[i].IsCorrect]

RECURSIVE SumSeq(_)
SumSeq(xs) == IF xs = <<>> THEN 0 ELSE Head(xs) + SumSeq(Tail(xs))

\* Mean giving 1 as soon as one value is positive.
Mean_Any(xs) ==
    [num |-> IF SumSeq(xs) > 0 THEN 1 ELSE 0, den |-> 1]

\* 'mean', as the fraction num / den.
Mean(xs) == [num |-> SumSeq(xs), den |-> Len(xs)]

\* First taking the last row of the group.
First_Last(g) == g[Len(g)]

\* 'first' of a column without missing values: the group's first row.
First(g) == g[1]

RECURSIVE SortInts(_)
SortInts(xs) ==
    IF xs = <<>> THEN <<>>
    ELSE LET i == Min({j \in 1..Len(xs) :
                          \A k \in 1..Len(xs) : xs[j] <= xs[k]})
         IN  <<xs[i]>> \o SortInts(SubSeq(xs, 1, i - 1)
                                     \o SubSeq(xs, i + 1, Len(xs)))

\* Percentile taking q percent of the largest value.
Percentile_OfLargest(xs, q) ==
    [num |-> q * SortInts(xs)[Len(xs)], den |-> 100]

\* np.percentile(xs, q), as the fraction num / den: the value at position
\* (n - 1) * q / 100 of the sorted sample, interpolated linearly between
\* its two neighbours.
Percentile(xs, q) ==
    LET sorted == SortInts(xs)
        pos == (Len(xs) - 1) * q
        lo == pos \div 100 + 1
        hi == Min({lo + 1, Len(xs)})
    IN  [num |-> 100 * sorted[lo] + (pos % 100) * (sorted[hi] - sorted[lo]),
         den |-> 100]

\* The epochs are over: the log is sorted and summarised per ID.
Aggregate ==
    /\ pc = "aggregate"
    /\ raw_df' = SortValues(results)
    /\ summary' =
          [id \in {results[i].ID : i \in 1..Len(results)} |->
              LET g == Group(raw_df', id)
              IN  [IsCorrect |-> Mean(Flags(g)),
                   Latency_P95_ms |-> Percentile(Latencies(g), 95),
                   Latency_P99_ms |-> Percentile(Latencies(g), 99),
                   Request_Size_Bytes |-> First(g).Request_Size_Bytes,
                   Response_Size_Bytes |-> First(g).Response_Size_Bytes,
                   SOAP_Calls_Count |-> First(g).SOAP_Calls_Count]]
    /\ pc' = "finished"
    /\ UNCHANGED <<equation, tree, expr, a, op, b, attempt, result, metrics,
                   value, step, calls, sleeps, df, EPOCHS, epoch, idx,
                   call_ms, results, faults_before>>

RunNext ==
    \/ StartRow
    \/ LoopExit
    \/ StripParens
    \/ BeginBracket
    \/ BracketValueError
    \/ Attempt
    \/ Replace
    \/ GiveUp
    \/ FinalMatch
    \/ FinalValueError
    \/ FinalAttempt
    \/ FinalGiveUp
    \/ PlainNumber
    \/ ParseFailure
    \/ RecordTrial
    \/ RunAborts
    \/ Aggregate

RunSpec == RunInit /\ [][RunNext]_vars

\* ---------------------------------------------------- reading the logs

\* Positions in calls of the dispatches of reduction step s.
CallsOf(s) == {i \in 1..Len(calls) : calls[i].step = s}

SleepsOf(s) == {i \in 1..Len(sleeps) : sleeps[i].step = s}

\* Dispatches that returned failure.
FailedCalls == {i \in 1..Len(calls) : calls[i].out.result = None}

\* Dispatches that reached the remote service.
RemoteCalls == {i \in 1..Len(calls) : calls[i].out.remote # "none"}

\* A dispatch of a division whose divisor rounds to 0.
DividesByZero(c) == c.op = "/" /\ RoundInt(c.b) = 0

RECURSIVE SumReq(_)
SumReq(n) == IF n = 0 THEN 0 ELSE SumReq(n - 1) + calls[n].out.req

RECURSIVE SumResp(_)
SumResp(n) == IF n = 0 THEN 0 ELSE SumResp(n - 1) + calls[n].out.resp

Returned == pc = "done"

\* ------------------------------------------- arithmetic, as fractions

\* The fraction num / den; den = 0 stands for an undefined value.
Rat(num, den) ==
    IF den < 0 THEN [num |-> -num, den |-> -den] ELSE [num |-> num, den |-> den]

RatOp(o, x, y) ==
    IF x.den = 0 \/ y.den = 0 THEN Rat(0, 0)
    ELSE CASE o = "+" -> Rat(x.num * y.den + y.num * x.den, x.den * y.den)
           [] o = "-" -> Rat(x.num * y.den - y.num * x.den, x.den * y.den)
           [] o = "*" -> Rat(x.num * y.num, x.den * y.den)
           [] o = "/" -> Rat(x.num * y.den, x.den * y.num)

\* The arithmetic value of a tree.
RECURSIVE ArithValue(_)
ArithValue(t) ==
    IF t.kind = "atom"
    THEN Rat(DigitsValue(t.tok), Pow10(Decimals(t.tok)))
    ELSE RatOp(t.op, ArithValue(t.l), ArithValue(t.r))

\* The float v is the fraction r.
SameValue(v, r) ==
    v # None /\ r.den # 0 /\ v.n * r.den = r.num * Pow10(v.k)

RECURSIVE BracketCount(_)
BracketCount(t) ==
    IF t.kind = "atom" THEN 0
    ELSE 1 + BracketCount(t.l) + BracketCount(t.r)

\* The triples of a tree, leftmost innermost bracket first.
RECURSIVE TreeTriples(_)
TreeTriples(t) ==
    IF t.kind = "atom" THEN <<>>
    ELSE TreeTriples(t.l) \o TreeTriples(t.r)
         \o <<[op |-> t.op, a |-> ArithValue(t.l), b |-> ArithValue(t.r)]>>

\* One dispatch per bracket, leftmost innermost first, with the operands'
\* arithmetic values; no parenthesis left; the arithmetic value returned.
ReducedBracketByBracket(t) ==
    LET want == TreeTriples(t)
    IN  /\ soap_calls = BracketCount(t)
        /\ Len(calls) = Len(want)
        /\ \A i \in 1..Len(want) :
              i <= Len(calls) =>
                /\ calls[i].op = want[i].op
                /\ SameValue(calls[i].a, want[i].a)
                /\ SameValue(calls[i].b, want[i].b)
        /\ \A i \in 1..Len(expr) : expr[i] \notin Parens
        /\ SameValue(value, ArithValue(t))

\* Every operand in the tree, literal or bracket, is a non-negative integer,
\* and no division has the divisor 0 or a quotient that is no integer.
RECURSIVE ExactTree(_)
ExactTree(t) ==
    IF t.kind = "atom" THEN Decimals(t.tok) = 0 /\ CountOf(t.tok, ".") = 0
    ELSE LET x == ArithValue(t.l)
             y == ArithValue(t.r)
             v == ArithValue(t)
         IN  /\ ExactTree(t.l) /\ ExactTree(t.r)
             /\ x.num >= 0 /\ y.num >= 0
             /\ v.den # 0 /\ v.num % v.den = 0

Text_2plus3 == <<"(", "2", "+", "3", ")">>

Text_2plus3times4 == <<"(", "(", "2", "+", "3", ")", "*", "4", ")">>

\* C1, as claimed: with a remote service that never raises, a nested
\* expression whose brackets each hold one triple of non-negative operands is
\* reduced with one dispatch per bracket, leftmost innermost bracket first,
\* and returns its arithmetic value with no parenthesis left.
C1_AsClaimed ==
    (Returned /\ tree # NoTree /\ Faults = 0) => ReducedBracketByBracket(tree)

\* C1, amended: the same when moreover every operand, literal or inner
\* bracket, is a non-negative integer and every division is exact with a
\* divisor other than 0; "(2+3)" takes one dispatch and yields 5.0,
\* "((2+3)*4)" takes two, 2+3 then 5*4, and yields 20.0.
C1_ExactNestedReduction ==
    /\ (Returned /\ tree # NoTree /\ ExactTree(tree) /\ Faults = 0)
          => ReducedBracketByBracket(tree)
    /\ (Returned /\ equation = Text_2plus3 /\ Faults = 0)
          => soap_calls = 1 /\ value = FloatOfInt(5)
    /\ (Returned /\ equation = Text_2plus3times4 /\ Faults = 0)
          => /\ soap_calls = 2 /\ value = FloatOfInt(20)
             /\ Len(calls) = 2
             /\ <<calls[1].op, calls[1].a, calls[1].b>>
                  = <<"+", FloatOfInt(2), FloatOfInt(3)>>
             /\ <<calls[2].op, calls[2].a, calls[2].b>>
                  = <<"*", FloatOfInt(5), FloatOfInt(4)>>

C1_Witness ==
    /\ Returned /\ equation = Text_2plus3times4 /\ tree # NoTree
    /\ ExactTree(tree) /\ Faults = 0
    /\ soap_calls = 2 /\ value = FloatOfInt(20)

NoParens(s) == \A i \in 1..Len(s) : s[i] \notin Parens

OperatorCount(s) == Cardinality({i \in 1..Len(s) : s[i] \in OpChars})

\* C2: an expression without parentheses and with exactly one operator whose
\* first dispatch succeeds has returned after that one dispatch, with
\* soap_calls = 1 and retry_count = 0.
C2_OneDispatch ==
    (/\ NoParens(equation) /\ OperatorCount(equation) = 1
     /\ calls # <<>> /\ calls[1].out.result # None)
    => /\ Returned
       /\ Len(calls) = 1 /\ soap_calls = 1 /\ retry_count = 0
       /\ value = calls[1].out.result

C2_Witness ==
    /\ Returned /\ equation = <<"2", "+", "3">>
    /\ soap_calls = 1 /\ retry_count = 0 /\ value = FloatOfInt(5)

Text_5div0 == <<"(", "5", "/", "0", ")">>

\* C3: a division whose divisor rounds to 0 is answered by the dispatcher
\* itself with failure, status 500, fault 1 and byte estimates 0/0, no
\* remote method being invoked; "(5/0)" returns failure with fault_flag 1,
\* http_status 500 and no remote call made.
C3_ZeroDivisorIsLocal ==
    /\ \A i \in 1..Len(calls) :
          DividesByZero(calls[i]) =>
             /\ calls[i].out.remote = "none"
             /\ calls[i].out.result = None
             /\ calls[i].out.status = 500 /\ calls[i].out.fault = 1
             /\ calls[i].out.req = 0 /\ calls[i].out.resp = 0
    /\ (Returned /\ equation = Text_5div0)
          => /\ value = None /\ fault_flag = 1 /\ http_status = 500
             /\ RemoteCalls = {}
             /\ total_req_bytes = 0 /\ total_resp_bytes = 0

\* A divisor that only rounds to 0 ("2/0.5" outside any bracket) has been
\* refused.
C3_Witness ==
    /\ Returned /\ equation = <<"2", "/", "0", ".", "5">>
    /\ calls # <<>> /\ DividesByZero(calls[1]) /\ calls[1].b # FloatOfInt(0)
    /\ fault_flag = 1 /\ http_status = 500 /\ RemoteCalls = {}

\* The dispatches of step s in order: positions lo..hi of calls.
StepIsRun(s) ==
    CallsOf(s) = {} \/ \E lo, hi \in 1..Len(calls) : CallsOf(s) = lo..hi

\* C4: a reduction step dispatches at most MAX_RETRIES times and never after
\* its first success; the value of that success is the step's result (three
\* calls when attempts 1 and 2 failed); a step whose MAX_RETRIES attempts all
\* failed returns failure with the status and fault of the last attempt.
C4_BoundedRetry ==
    /\ \A s \in 1..step :
          /\ Cardinality(CallsOf(s)) <= MAX_RETRIES
          /\ StepIsRun(s)
          /\ \A i, j \in CallsOf(s) : i < j => i \in FailedCalls
    /\ \A i \in 1..Len(calls) : calls[i].step \in 1..step
    /\ (pc = "after" /\ calls # <<>>) =>
          /\ result = calls[Len(calls)].out.result
          /\ result = None => Cardinality(CallsOf(step)) = MAX_RETRIES
    /\ (Returned /\ calls # <<>>) =>
          LET last == calls[Len(calls)]
          IN  IF last.out.result # None
              THEN last.at = "finaltry" => value = last.out.result
              ELSE /\ value = None
                   /\ Cardinality(CallsOf(step)) = MAX_RETRIES
                   /\ CallsOf(step) \subseteq FailedCalls
                   /\ last.step = step
                   /\ http_status = last.out.status
                   /\ fault_flag = last.out.fault

\* Attempts 1 and 2 of the only step failed, attempt 3 succeeded and its
\* value was returned.
C4_Witness ==
    /\ Returned /\ step = 1 /\ Len(calls) = 3 /\ soap_calls = 3
    /\ calls[1].out.result = None /\ calls[2].out.result = None
    /\ calls[3].out.result # None /\ value = calls[3].out.result

\* C5, as claimed: a reduction step that made n attempts slept n - 1 times,
\* after the failed attempt of index i for i times the base delay, and never
\* after its last attempt.
C5_SleepsOnlyBetweenAttempts ==
    /\ \A i \in 1..Len(sleeps) : sleeps[i].units = sleeps[i].after
    /\ Returned =>
          \A s \in 1..step :
             Cardinality(SleepsOf(s)) = Cardinality(CallsOf(s)) - 1

\* C6: a step whose division has a divisor that rounds to 0 dispatches
\* MAX_RETRIES times with the same operator and operands, every time refused
\* for the zero divisor, and the evaluation then returns failure; the step
\* adds 3 to soap_calls and 3 to retry_count.
C6_ZeroDivisorIsRetried ==
    (Returned /\ \E i \in 1..Len(calls) : DividesByZero(calls[i])) =>
       LET n == Len(calls)
           earlier == 1..(n - MAX_RETRIES)
       IN  /\ n >= MAX_RETRIES
           /\ DividesByZero(calls[n])
           /\ CallsOf(step) = (n - MAX_RETRIES + 1)..n
           /\ \A i \in CallsOf(step) :
                 /\ <<calls[i].op, calls[i].a, calls[i].b>>
                      = <<calls[n].op, calls[n].a, calls[n].b>>
                 /\ calls[i].out.result = None
                 /\ calls[i].out.remote = "none"
           /\ value = None
           /\ soap_calls = Cardinality(earlier) + 3
           /\ retry_count = Cardinality(earlier \cap FailedCalls) + 3

\* "((2+5)/0)": one dispatch for the inner bracket, three for the division.
C6_Witness ==
    /\ Returned
    /\ equation = <<"(", "(", "2", "+", "5", ")", "/", "0", ")">>
    /\ Faults = 0 /\ soap_calls = 4 /\ retry_count = 3 /\ value = None
    /\ DividesByZero(calls[4])

\* C7: soap_calls is the number of dispatcher invocations made, and the byte
\* totals are the sums of the estimates every invocation returned, failed
\* attempts included, at every return and at every point before it.
C7_MetricsAccumulate ==
    /\ soap_calls = Len(calls)
    /\ total_req_bytes = SumReq(Len(calls))
    /\ total_resp_bytes = SumResp(Len(calls))

\* A return after two steps, with a remote fault and a success among the
\* attempts.
C7_Witness ==
    /\ Returned /\ step = 2 /\ Len(calls) >= 3
    /\ \E i \in RemoteCalls : i \in FailedCalls
    /\ \E i \in RemoteCalls : i \notin FailedCalls
    /\ total_req_bytes > FAULT_REQ_BYTES + REQ_OVERHEAD

\* Step s made MAX_RETRIES attempts that all failed.
StepExhausted(s) ==
    Cardinality(CallsOf(s)) = MAX_RETRIES /\ CallsOf(s) \subseteq FailedCalls

\* C8: once a reduction step has exhausted its retries no later step is
\* begun and no further dispatch made, and the evaluation returns None.
C8_AbortsAtOnce ==
    \A s \in 1..step :
       StepExhausted(s) =>
          /\ step = s
          /\ \A i \in 1..Len(calls) : calls[i].step <= s
          /\ pc \in {"after", "finalafter", "done"}
          /\ Returned => value = None

\* The inner bracket of "((2+5)*4)" failed three times: the evaluation has
\* returned None with the outer bracket never dispatched.
C8_Witness ==
    /\ Returned
    /\ equation = <<"(", "(", "2", "+", "5", ")", "*", "4", ")">>
    /\ StepExhausted(1) /\ step = 1 /\ Len(calls) = 3
    /\ InnermostMatch(expr).found /\ value = None

\* The loop stands before a bracket that holds no triple.
AtBracketWithoutTriple ==
    /\ pc = "loop"
    /\ InnermostMatch(expr).found
    /\ ~TripleMatch(InnermostMatch(expr).group1).found

\* expr with the two parentheses of its leftmost innermost bracket removed
\* and the text between them replaced by content.
WithoutParens(content) ==
    LET m == InnermostMatch(expr)
    IN  Slice(expr, 1, m.first - 1) \o content
          \o Slice(expr, m.last + 1, Len(expr))

Text_5 == <<"(", "5", ")">>

\* C9, as claimed: a bracket without a triple loses its two parentheses
\* only, its content and the rest of the expression staying as they are,
\* and nothing is dispatched; "(5)" returns 5.0 with soap_calls = 0.
C9_AsClaimed ==
    /\ [][AtBracketWithoutTriple =>
            /\ expr' = WithoutParens(InnermostMatch(expr).group1)
            /\ calls' = calls /\ soap_calls' = soap_calls]_vars
    /\ []((Returned /\ equation = Text_5)
            => value = FloatOfInt(5) /\ soap_calls = 0)

\* C9, amended: the bracket loses its two parentheses and the whitespace at
\* the two ends of its content; the rest of the content and of the
\* expression stay as they are and nothing is dispatched; "(5)" returns 5.0
\* with soap_calls = 0.
C9_ParensAndOuterWhitespaceRemoved ==
    /\ [][AtBracketWithoutTriple =>
            /\ expr' = WithoutParens(Strip(InnermostMatch(expr).group1))
            /\ calls' = calls /\ soap_calls' = soap_calls]_vars
    /\ []((Returned /\ equation = Text_5)
            => value = FloatOfInt(5) /\ soap_calls = 0)

\* "( 5 )" has become "5" and was returned as 5.0 without a dispatch.
C9_Witness ==
    /\ Returned /\ equation = <<"(", " ", "5", " ", ")">>
    /\ expr = <<"5">> /\ value = FloatOfInt(5) /\ soap_calls = 0

Text_2plus3plus4 == <<"(", "2", "+", "3", "+", "4", ")">>

\* C10, as claimed: an expression whose bracket holds a chain of operations
\* ends in failure.
C10_AsClaimed ==
    (Returned /\ equation \in ChainedTexts) => value = None

\* C10, amended: of a bracket that holds a chain of operations only the
\* first triple is dispatched, and its result replaces the whole bracket,
\* the rest of the chain included: no residual is left, and with a service
\* that succeeds the evaluation returns the value of the first triple, 5.0
\* for "(2+3+4)".
C10_FirstTripleReplacesBracket ==
    /\ (Returned /\ equation \in ChainedTexts /\ Faults = 0) =>
          /\ Len(calls) = 1
          /\ calls[1].op = equation[3]
          /\ calls[1].a = NumberValue(<<equation[2]>>)
          /\ calls[1].b = NumberValue(<<equation[4]>>)
          /\ value # None /\ value = calls[1].out.result
          /\ expr = StrFloat(value)
    /\ (Returned /\ equation = Text_2plus3plus4 /\ Faults = 0) =>
          value = FloatOfInt(5)

C10_Witness ==
    /\ Returned /\ equation = Text_2plus3plus4 /\ Faults = 0
    /\ Len(calls) = 1 /\ value = FloatOfInt(5)
    /\ expr = <<"5", ".", "0">>

\* ------------------------------------------------------------ C11

\* Dispatches made by the final pass.
FinalCalls == {i \in 1..Len(calls) : calls[i].at = "finaltry"}

\* The evaluation is over, by a return or by an exception.
Over == pc \in {"done", "raised"}

\* C11: once no parentheses remain, the evaluation ends by a return after
\* at most one further reduction step: a triple in the remaining string is
\* dispatched; without a triple, a string that is a numeric literal is
\* returned as that number without any dispatch; a string that is neither
\* makes the evaluation return None without any dispatch.
C11_FinalPass ==
    (Over /\ NoParens(expr)) =>
        LET t == TripleMatch(expr)
        IN  /\ pc = "done"
            /\ \A i, j \in FinalCalls : calls[i].step = calls[j].step
            /\ t.found =>
                  /\ FinalCalls # {}
                  /\ \A i \in FinalCalls : calls[i].op = t.group2
            /\ (~t.found /\ PyFloat(expr) # ValueError) =>
                  FinalCalls = {} /\ value = PyFloat(expr)
            /\ (~t.found /\ PyFloat(expr) = ValueError) =>
                  FinalCalls = {} /\ value = None

\* ------------------------------------------------------------ C12

\* C12: call_soap_operation handed an operator outside {+,-,*,/} returns
\* failure (no value) with status 400, fault 1 and byte estimates 0 / 0,
\* and invokes no remote method.
C12_UnknownOperatorRefused ==
    \A i \in 1..Len(calls) :
        calls[i].op \notin {"+", "-", "*", "/"} =>
            /\ calls[i].out.result = None
            /\ calls[i].out.status = 400
            /\ calls[i].out.fault = 1
            /\ calls[i].out.req = 0 /\ calls[i].out.resp = 0
            /\ calls[i].out.remote = "none"

C12_Witness ==
    /\ pc = "called" /\ Len(calls) = 1
    /\ calls[1].op = "^" /\ calls[1].a = Normal(2, 0)
    /\ calls[1].out.status = 400

\* ------------------------------------------------------------ C13

\* The remote method was invoked and raised.
RemoteRaised(c) == c.out.remote # "none" /\ c.out.result = None

\* C13: when the remote call raises, call_soap_operation returns (the
\* exception goes no further) failure with value None, status 500, fault 1
\* and the fixed estimate of 200 bytes sent and 100 received.
C13_RemoteFailureReturned ==
    \A i \in 1..Len(calls) :
        RemoteRaised(calls[i]) =>
            /\ calls[i].out.status = 500
            /\ calls[i].out.fault = 1
            /\ calls[i].out.req = 200 /\ calls[i].out.resp = 100

C13_Witness ==
    /\ pc = "called" /\ Len(calls) = 1
    /\ calls[1].op = "*" /\ RemoteRaised(calls[1])
    /\ calls[1].out.req = 200

\* ------------------------------------------------------------ C14

\* i is an integer nearest to the float x.
Nearest(i, x) == 2 * Abs(i * Pow10(x.k) - x.n) <= Pow10(x.k)

\* The remote method an operator names, as the claim lists them.
NamedBy(o) ==
    CASE o = "+" -> "Add" [] o = "-" -> "Subtract"
      [] o = "*" -> "Multiply" [] o = "/" -> "Divide"
      [] OTHER -> "none"

\* C14: a dispatch that succeeds has invoked the remote method the operator
\* names with each operand rounded to a nearest integer, and returns the
\* remote result with status 200, fault 0, a request estimate of 300 plus
\* the lengths of the decimal texts of the two rounded operands and a
\* response estimate of 250 plus the length of the text of the result.
C14_SuccessfulDispatch ==
    \A i \in 1..Len(calls) :
        LET c == calls[i]
        IN  c.out.result # None =>
              /\ c.out.remote = NamedBy(c.op) /\ c.out.remote # "none"
              /\ Len(c.out.args) = 2
              /\ Nearest(c.out.args[1], c.a)
              /\ Nearest(c.out.args[2], c.b)
              /\ c.out.result =
                    FloatOfInt(RemoteResult(c.op, c.out.args[1],
                                            c.out.args[2]))
              /\ c.out.status = 200 /\ c.out.fault = 0
              /\ c.out.req = 300 + Len(IntStr(c.out.args[1]))
                                 + Len(IntStr(c.out.args[2]))
              /\ c.out.resp = 250 + Len(IntStr(c.out.result.n))

\* 2.6 + 99.6 is sent as Add(3, 100) and answered 103: 304 and 253 bytes.
C14_Witness ==
    /\ pc = "called" /\ Len(calls) = 1
    /\ calls[1].op = "+"
    /\ calls[1].a = Normal(26, 1) /\ calls[1].b = Normal(996, 1)
    /\ calls[1].out.remote = "Add" /\ calls[1].out.args = <<3, 100>>
    /\ calls[1].out.result = FloatOfInt(103)
    /\ calls[1].out.req = 304 /\ calls[1].out.resp = 253

\* ------------------------------------------------------------ C15

\* C15: no failure of a row's evaluation leaves evaluate_expression as an
\* exception, and none ends the run: every evaluation returns, and every
\* (row, epoch) the loops have gone past has its record in the log.
C15_RowFailuresContained ==
    /\ pc \notin {"raised", "aborted"}
    /\ pc = "row" => Len(results) = epoch * Len(df) + idx - 1

\* ------------------------------------------------------------ C16

\* The loops are over, by the end of the last epoch or by an exception.
LoopsOver == pc \in {"aggregate", "finished", "aborted"}

\* Records of the log for row r of the dataset in epoch e.
TrialsOf(r, e) ==
    {i \in 1..Len(results) :
        results[i].ID = df[r].ID /\ results[i].Epoch = e}

\* C16: the log holds the rows of an epoch before any row of the next,
\* its epoch indices lie in 1..EPOCHS, and once the loops are over every
\* row has been evaluated exactly once in every epoch: the log holds
\* EPOCHS x (number of rows) records, one per (row, epoch).
C16_EveryRowEveryEpoch ==
    /\ \A i \in 1..Len(results) : results[i].Epoch \in 1..EPOCHS
    /\ \A i, j \in 1..Len(results) :
          i < j => results[i].Epoch <= results[j].Epoch
    /\ LoopsOver =>
          /\ Len(results) = EPOCHS * Len(df)
          /\ \A r \in 1..Len(df), e \in 1..EPOCHS :
                Cardinality(TrialsOf(r, e)) = 1

\* ------------------------------------------------------------ C17

\* Positions in the log of the trials of an ID.
TrialsOfId(id) == {i \in 1..Len(results) : results[i].ID = id}

\* IDs with a trial in the log.
TrialIds == {results[i].ID : i \in 1..Len(results)}

\* The correctness flag of an ID's trial of epoch e, -1 without such trial.
FlagOf(id, e) ==
    LET at == {i \in TrialsOfId(id) : results[i].Epoch = e}
    IN  IF at = {} THEN -1 ELSE results[CHOOSE i \in at : TRUE].IsCorrect

\* C17: the summary has a row for every ID of the log, and its IsCorrect
\* is the number of the ID's trials with correctness 1 divided by the number
\* of the ID's trials, a value between 0 and 1: 2/3 for an ID whose three
\* epochs gave the flags 1, 0, 1.
C17_MeanCorrectness ==
    pc = "finished" =>
        /\ DOMAIN summary = TrialIds
        /\ \A id \in TrialIds :
              LET m == summary[id].IsCorrect
                  ones == {i \in TrialsOfId(id) : results[i].IsCorrect = 1}
              IN  /\ m.den > 0
                  /\ m.num * Cardinality(TrialsOfId(id))
                        = Cardinality(ones) * m.den
                  /\ 0 <= m.num /\ m.num <= m.den
                  /\ (EPOCHS = 3 /\ FlagOf(id, 1) = 1 /\ FlagOf(id, 2) = 0
                        /\ FlagOf(id, 3) = 1) => 3 * m.num = 2 * m.den

\* Three epochs of "2+3" expecting 5.0, the service failing the three
\* attempts of the second.
C17_Witness ==
    /\ pc = "finished" /\ EPOCHS = 3 /\ Len(df) = 1
    /\ FlagOf(1, 1) = 1 /\ FlagOf(1, 2) = 0 /\ FlagOf(1, 3) = 1
    /\ 3 * summary[1].IsCorrect.num = 2 * summary[1].IsCorrect.den

\* ------------------------------------------------------------ C18

\* The fraction f has the value of the integer x.
Equals(f, x) == f.den > 0 /\ f.num = x * f.den

\* C18: for an ID with a single trial in the log, the summary is computed
\* and its Latency_P95_ms and Latency_P99_ms both are that trial's latency.
C18_SingleTrialPercentiles ==
    pc = "finished" =>
        \A id \in TrialIds :
            Cardinality(TrialsOfId(id)) = 1 =>
                LET t == results[CHOOSE i \in TrialsOfId(id) : TRUE]
                IN  /\ id \in DOMAIN summary
                    /\ Equals(summary[id].Latency_P95_ms, t.Latency_ms)
                    /\ Equals(summary[id].Latency_P99_ms, t.Latency_ms)

\* A run of one epoch over one row whose evaluation retried once.
C18_Witness ==
    /\ pc = "finished" /\ EPOCHS = 1 /\ Len(results) = 1
    /\ results[1].SOAP_Calls_Count = 2
    /\ results[1].Latency_ms = 3 * call_ms
    /\ Equals(summary[results[1].ID].Latency_P95_ms, 3 * call_ms)
    /\ Equals(summary[results[1].ID].Latency_P99_ms, 3 * call_ms)

\* ------------------------------------------------------------ C19

\* C19: the summary's Request_Size_Bytes, Response_Size_Bytes and
\* SOAP_Calls_Count of an ID are those of the ID's trial of epoch 1,
\* whatever the trials of the later epochs recorded.
C19_SizesOfFirstEpoch ==
    pc = "finished" =>
        \A id \in TrialIds :
            \E i \in TrialsOfId(id) :
                /\ results[i].Epoch = 1
                /\ \A j \in TrialsOfId(id) : results[j].Epoch = 1 => j = i
                /\ summary[id].Request_Size_Bytes
                      = results[i].Request_Size_Bytes
                /\ summary[id].Response_Size_Bytes
                      = results[i].Response_Size_Bytes
                /\ summary[id].SOAP_Calls_Count
                      = results[i].SOAP_Calls_Count

\* ID 2 comes first in the dataset; its evaluation needed one call in
\* epoch 1 and three in a later epoch.
C19_Witness ==
    /\ pc = "finished" /\ EPOCHS >= 2 /\ Len(df) = 2 /\ df[1].ID = 2
    /\ \E i, j \in TrialsOfId(2) :
          /\ results[i].Epoch = 1 /\ results[i].SOAP_Calls_Count = 1
          /\ results[j].Epoch > 1 /\ results[j].SOAP_Calls_Count = 3
          /\ results[j].Request_Size_Bytes # results[i].Request_Size_Bytes
    /\ summary[2].SOAP_Calls_Count = 1
    /\ summary[2].Request_Size_Bytes = 302
    /\ summary[2].Response_Size_Bytes = 251

\* ------------------------------------------------------------ C20

\* The cell holds a number.
IsNumber(x) == FloatOfCell(x) \notin {ValueError, NaN}

\* abs(x - y) <= 1.0 of two floats.
AtMostOneApart(x, y) ==
    Abs(x.n * Pow10(y.k) - y.n * Pow10(x.k)) <= Pow10(x.k + y.k)

\* C20: a trial's correctness flag is 1 exactly when the evaluation
\* returned a value, the expected answer is a number, and the two differ by
\* no more than the tolerance 1.0; it is 0 in every other case.
C20_WithinTolerance ==
    \A i \in 1..Len(results) :
        LET t == results[i]
        IN  /\ t.IsCorrect \in {0, 1}
            /\ t.IsCorrect = 1 <=>
                  /\ t.Output_Answer # None
                  /\ IsNumber(t.Answer)
                  /\ AtMostOneApart(t.Output_Answer, FloatOfCell(t.Answer))

\* ------------------------------------------------------------ C21

\* Reduction steps the parenthesis loop has dispatched for.
BracketSteps == {calls[i].step : i \in {j \in 1..Len(calls) : calls[j].at = "try"}}

\* C21: the parenthesis loop ends whatever the service answers. Every
\* change it makes to the expression takes away exactly one '(' and one ')'
\* and the loop goes on from there; inside an iteration the expression
\* still holds a '('; so the loop dispatches for no more brackets than the
\* input has '(', the dispatcher is invoked at most MAX_RETRIES times per
\* '(' and MAX_RETRIES times more in the final pass, and the evaluation ends.
C21_LoopTerminates ==
    /\ [][expr' # expr =>
            /\ CountOf(expr', "(") = CountOf(expr, "(") - 1
            /\ CountOf(expr', ")") = CountOf(expr, ")") - 1
            /\ pc' = "loop"]_vars
    /\ [](pc \in {"try", "after"} => CountOf(expr, "(") >= 1)
    /\ [](Cardinality(BracketSteps) <= CountOf(equation, "("))
    /\ [](Len(calls) <= MAX_RETRIES * (CountOf(equation, "(") + 1))
    /\ <>Over

\* "((2-5)+4)" with the service raising twice: two iterations for two '(',
\* four dispatches, and the evaluation has returned.
C21_Witness ==
    /\ Returned /\ CountOf(equation, "(") = 2
    /\ Cardinality(BracketSteps) = 2
    /\ CountOf(expr, "(") = 0
    /\ Len(calls) = 4

\* ------------------------------------------------------------ C22

\* What is left of the expression holds no triple and is no number: the
\* state in which float(expr) raises and the except clause returns.
ParseFailed ==
    /\ ~InnermostMatch(expr).found
    /\ ~TripleMatch(expr).found
    /\ PyFloat(expr) = ValueError

\* C22: a returned number comes with http_status 200 and fault_flag 0; None
\* with fault_flag 1 comes from a last reduction step of exactly MAX_RETRIES
\* attempts, all failed; None with fault_flag 0 comes from a parse failure
\* only, after dispatches (if any) whose last one succeeded.
C22_StatusOfReturn ==
    Returned =>
       /\ fault_flag \in {0, 1}
       /\ value # None => http_status = STATUS_OK /\ fault_flag = 0
       /\ (value = None /\ fault_flag = 1) =>
             /\ step >= 1
             /\ Cardinality(CallsOf(step)) = MAX_RETRIES
             /\ CallsOf(step) \subseteq FailedCalls
             /\ Len(calls) \in CallsOf(step)
             /\ http_status # STATUS_OK
       /\ (value = None /\ fault_flag = 0) =>
             /\ ParseFailed
             /\ http_status = STATUS_OK
             /\ calls # <<>> => Len(calls) \notin FailedCalls

\* "((2-5)+4)": the inner bracket was reduced at the first attempt, the
\* outer one failed MAX_RETRIES times, and None is returned with the fault
\* flag set and the status of the last failure.
C22_Witness ==
    /\ Returned /\ value = None /\ fault_flag = 1
    /\ http_status = STATUS_ERROR
    /\ step = 2 /\ Len(calls) = 1 + MAX_RETRIES
    /\ 1 \notin FailedCalls
    /\ CallsOf(2) = 2..(1 + MAX_RETRIES)

\* ------------------------------------------------------------ C23

\* Dispatches that returned a value.
SuccessfulCalls == (1..Len(calls)) \ FailedCalls

\* C23: at every return soap_calls is retry_count plus the number of
\* successful dispatches, retry_count is the number of failed attempts, and
\* a return after exhausted retries has retry_count >= MAX_RETRIES.
C23_CountersAtReturn ==
    Returned =>
       /\ soap_calls = retry_count + Cardinality(SuccessfulCalls)
       /\ retry_count = Cardinality(FailedCalls)
       /\ (step >= 1 /\ StepExhausted(step)) => retry_count >= MAX_RETRIES

\* A first bracket reduced at its second attempt and a second step that
\* failed MAX_RETRIES times: one success, MAX_RETRIES + 1 failures.
C23_Witness ==
    /\ Returned /\ step = 2 /\ StepExhausted(2)
    /\ FailedCalls = {1} \cup CallsOf(2)
    /\ SuccessfulCalls = {2}
    /\ retry_count = MAX_RETRIES + 1
    /\ soap_calls = MAX_RETRIES + 2

\* ------------------------------------------------------------ C24

\* The four operators call_soap_operation has a remote method for.
Arithmetic == {"+", "-", "*", "/"}

\* C24: every operator handed to the dispatcher is one of + - * /, no
\* dispatch comes back with the unknown-operator status 400, and http_status
\* is 200 or 500 throughout and so at every return.
C24_OnlyKnownOperators ==
    /\ \A i \in 1..Len(calls) :
          /\ calls[i].op \in Arithmetic
          /\ calls[i].out.status \in {STATUS_OK, STATUS_ERROR}
    /\ pc \in {"try", "finaltry"} => op \in Arithmetic
    /\ http_status \in {STATUS_OK, STATUS_ERROR}
    /\ http_status # STATUS_BAD_OP

\* "2^3+4": '^' is no operator of the pattern, so the triple found is 3+4;
\* it was dispatched as an addition and the evaluation returned with 200.
C24_Witness ==
    /\ Returned
    /\ equation = <<"2", "^", "3", "+", "4">>
    /\ Len(calls) = 1
    /\ calls[1].op = "+"
    /\ calls[1].a = FloatOfInt(3) /\ calls[1].b = FloatOfInt(4)
    /\ http_status = STATUS_OK
    /\ value # None

\* ------------------------------------------------------------ C25

\* The triple the step under way was taken from: that of the innermost
\* bracket while the loop has one, that of the whole expression after it.
Captured ==
    IF InnermostMatch(expr).found
    THEN TripleMatch(Inner(InnermostMatch(expr)))
    ELSE TripleMatch(expr)

DigitsAndDots(tok) == tok # <<>> /\ \A i \in 1..Len(tok) : tok[i] \in NumChars

\* C25: every operand handed to the dispatcher is non-negative. The two
\* operands of a step are captured as runs of digits and dots, a sign in
\* front left out, and are the values of those runs; so the '-' of an
\* earlier negative result is never part of a later operand.
C25_OperandsNonNegative ==
    /\ \A i \in 1..Len(calls) : calls[i].a.n >= 0 /\ calls[i].b.n >= 0
    /\ pc \in {"try", "finaltry", "raised"} =>
          /\ Captured.found
          /\ DigitsAndDots(Captured.group1)
          /\ DigitsAndDots(Captured.group3)
          /\ pc # "raised" =>
                /\ a = NumberValue(Captured.group1)
                /\ b = NumberValue(Captured.group3)
                /\ a.n >= 0 /\ b.n >= 0

\* "((2-5)+4)": the inner bracket gave -3.0, the outer bracket was then
\* dispatched as 3 + 4 and 7.0 came back.
C25_Witness ==
    /\ Returned
    /\ equation = <<"(", "(", "2", "-", "5", ")", "+", "4", ")">>
    /\ Len(calls) = 2
    /\ calls[1].out.result = FloatOfInt(-3)
    /\ calls[2].a = FloatOfInt(3) /\ calls[2].op = "+"
    /\ calls[2].b = FloatOfInt(4)
    /\ value = FloatOfInt(7)

\* ------------------------------------------------------------ C26

\* The expression holds a '(' and no innermost bracket: the loop has ended
\* by its break.
Unmatched(s) == CountOf(s, "(") >= 1 /\ ~InnermostMatch(s).found

\* C26: an expression with a '(' but no matched innermost bracket leaves
\* the loop unchanged and goes through the final pass with its parentheses:
\* a triple found there is dispatched and the result of the dispatch is the
\* value returned; without a triple the evaluation returns None.
C26_UnmatchedParentheses ==
    /\ Unmatched(Strip(equation)) => expr = Strip(equation)
    /\ (Over /\ Unmatched(expr)) =>
          LET t == TripleMatch(expr)
          IN  /\ pc = "done"
              /\ t.found =>
                    /\ FinalCalls # {}
                    /\ FinalCalls = CallsOf(step)
                    /\ \A i \in FinalCalls :
                          /\ calls[i].op = t.group2
                          /\ calls[i].a = NumberValue(t.group1)
                          /\ calls[i].b = NumberValue(t.group3)
                    /\ value = calls[Len(calls)].out.result
              /\ ~t.found => FinalCalls = {} /\ value = None

====
